---- MODULE Spec2Model ----
(***************************************************************************)
(* Verification model of the Pizza_AI frontend.                            *)
(*                                                                         *)
(* Part 1: the VoiceButton component (the revision with the permission     *)
(* state, the isInitialized guard and the toasts) together with the        *)
(* platform speech-recognition session it drives.  The component is a set  *)
(* of run-to-completion callbacks: the mount effect, its re-runs, the      *)
(* click handler toggleListening with its awaited getUserMedia probe, and  *)
(* the recognition object's event handlers.                                *)
(***************************************************************************)
EXTENDS Integers, Sequences, FiniteSets, TLC

VARIABLES
    protocol,        \* location.protocol
    hostname,        \* location.hostname
    engine,          \* window.SpeechRecognition || window.webkitSpeechRecognition exists
    mounted,         \* the component is mounted
    isListening,     \* useState(false)
    isSupported,     \* useState(false)
    hasPermission,   \* useState<boolean | null>(null): "null", "true", "false"
    isInitialized,   \* useState(false)
    recognitionRef,  \* useRef(null): "null" or "recognition"
    cleanup,         \* the last run of the init effect returned a cleanup function
    rerunDue,        \* the effect's re-run after the isInitialized change is still due
    preProbe,        \* mount-time testMicrophonePermission: "none", "pending", "done"
    pendingProbes,   \* getUserMedia probes of toggleListening still awaited
    probes,          \* outcomes of the probes of toggleListening settled since the last
                     \* successful start(), in order
    sess,            \* recognition session: "inactive", "starting", "active", "errored"
    events,          \* kinds of adapter events delivered since the last successful start()
    nResults,        \* result events delivered since the last successful start()
    lastEvent,       \* the result event given to onresult, where the specification
                     \* records it (SpecTranscript), or NoEvent
    stopCalls,       \* recognition.stop() calls since the last successful start()
    log,             \* host callbacks invoked and clicks handled since the last successful
                     \* start(), in order
    toasts,          \* toasts raised since the last successful start() (or mount)
    toggles,         \* toggleListening invocations so far
    liveTracks,      \* audio tracks acquired by getUserMedia and not stopped
    isUserConfirmed, \* Index: useState(false)
    orders,          \* Index: useState<Order[]>([]), each order as [id, status]
    recentOrder,     \* Index: useState<Order | null>(null): NoOrder or [id, status, items]
    interval,        \* Index: the interval of the live status simulation is set
    currentStatusIndex, \* Index: the variable of that name in the effect's closure
    rerenders,       \* VoiceButton.tsx: host re-renders that passed new callbacks
    recognitions,    \* VoiceButton.tsx: recognition objects created by the setup effect
    orphan,          \* VoiceButton.tsx: session of the recognition object the effect
                     \* replaced last: "inactive", "starting", "active", "errored"
    inputValue,      \* ChatInterface: useState('')
    messages,        \* Index: useState<ChatMessage[]>([]): sequence of [type, content]
    isProcessing,    \* Index: useState(false)
    requests,        \* POSTs to /chat in flight: [id, kind, origin, message], kind "form"
                     \* for handleSubmit's, "page" for handleSendMessage's
    posts,           \* POSTs sent to /chat so far, by origin of the message
    submitted,       \* messages accepted by handleSubmit so far
    currentOrder,    \* Index: useState<OrderItem[]>([]), the cart: sequence of [id, quantity]
    currentView,     \* Index: useState('menu')
    showThankYou,    \* Index: useState(false)
    notice,          \* Index: title of the last toast() call of the page, "" for none
    orderRequests,   \* POSTs to /order of placeOrder in flight: [id, items]
    orderPosts,      \* POSTs sent to /order by placeOrder so far
    userOrderHistory, \* OrderTracking: useState<any[]>([]): records of the backend
    loading,         \* OrderTracking: useState(false)
    loads,           \* OrderTracking: calls of loadUserOrderHistory in flight
    step,            \* EmailCheckFlow: useState('email'): "email", "name", "loading"
    email,           \* EmailCheckFlow: useState('')
    isLoading,       \* EmailCheckFlow: useState(false)
    checks,          \* EmailCheckFlow: requests in flight: "check" or "save"
    checkPosts,      \* EmailCheckFlow: POSTs sent to /user/check so far
    thanksMounted,   \* ThankYou: the screen is mounted and its effect has run
    currentStage,    \* ThankYou: useState(0)
    progressInterval, \* ThankYou: the interval of the effect is running
    viewTimeouts,    \* ThankYou: pending timeouts that will call onViewTracking
    viewTrackingCalls, \* ThankYou: calls of onViewTracking so far
    pageMounted      \* Index: the page is mounted

vars == << protocol, hostname, engine, mounted, isListening, isSupported,
           hasPermission, isInitialized, recognitionRef, cleanup, rerunDue,
           preProbe, pendingProbes, probes, sess, events, nResults, lastEvent,
           stopCalls, log, toasts, toggles, liveTracks,
           isUserConfirmed, orders, recentOrder, interval, currentStatusIndex,
           rerenders, recognitions, orphan,
           inputValue, messages, isProcessing, requests, posts, submitted,
           currentOrder, currentView, showThankYou, notice, orderRequests, orderPosts,
           userOrderHistory, loading, loads, step, email, isLoading, checks, checkPosts,
           thanksMounted, currentStage, progressInterval, viewTimeouts, viewTrackingCalls,
           pageMounted >>

envVars == << protocol, hostname, engine >>

\* The state of the VoiceButton and of its recognition session.
voiceVars == << mounted, isListening, isSupported, hasPermission, isInitialized,
                recognitionRef, cleanup, rerunDue, preProbe, pendingProbes, probes, sess,
                events, nResults, lastEvent, stopCalls, log, toasts, toggles,
                liveTracks >>

\* The state of the Index page.
pageVars == << isUserConfirmed, orders, recentOrder, interval, currentStatusIndex >>

\* The setup effect's re-runs in components/VoiceButton.tsx.
rerunVars == << rerenders, recognitions, orphan >>

\* The chat of the Index page and of ChatInterface.
chatVars == << inputValue, messages, isProcessing, requests, posts, submitted >>

\* The cart and the view of the Index page.
viewVars == << currentOrder, currentView, showThankYou, notice >>

\* The order requests of placeOrder.
cartVars == << orderRequests, orderPosts >>

\* The variables of the other components.
\* The state of OrderTracking.
trackVars == << userOrderHistory, loading, loads >>

\* The state of EmailCheckFlow.
gateVars == << step, email, isLoading, checks, checkPosts >>

\* The state of ThankYou and the mount state of its host page.
thanksVars == << thanksMounted, currentStage, progressInterval, viewTimeouts,
                 viewTrackingCalls, pageMounted >>

\* The components the page renders.
otherVars == << trackVars, gateVars, thanksVars >>

restVars == << rerunVars, chatVars, viewVars, cartVars, otherVars >>

----------------------------------------------------------------------------
(* Bounds of the model *)

MaxToggles == 2      \* user clicks explored
MaxResults == 2      \* result events per session
MaxSegs == 2         \* segments carried by one result event
MaxOrders == 2       \* orders in the orders list of the Index page
MaxRerenders == 1    \* host re-renders with new callbacks
MaxMessages == 2     \* messages sent through the chat (typed or spoken)
MaxQuantity == 2     \* pizzas in the cart
MaxPosts == 1        \* order requests of placeOrder
MaxLoads == 1        \* calls of loadUserOrderHistory in flight
MaxChecks == 2       \* requests of the email gate

----------------------------------------------------------------------------
(* Values *)

\* Pages the component is served from: (location.protocol, location.hostname).
Locations == { <<"https:", "example.com">>, <<"http:", "localhost">>,
               <<"http:", "127.0.0.1">>, <<"http:", "example.com">> }

\* event.error values; "aborted" and "bad-grammar" have no case of their own in the
\* switch of onerror and reach its default branch.
ErrorCodes == {"no-speech", "audio-capture", "not-allowed", "network",
               "service-not-allowed", "aborted", "bad-grammar"}

RecoverableCodes == ErrorCodes \ {"no-speech", "aborted", "not-allowed"}

\* Transcripts are sequences of characters; " " is whitespace.
Transcripts == { <<" ">>, <<"a", " ">>, <<" ", "b">> }

Segments == [transcript : Transcripts, isFinal : BOOLEAN]

SegSeqs == UNION { [1..n -> Segments] : n \in 1..MaxSegs }

\* SpeechRecognitionEvent: results plus the index of the first changed result.
ResultEvents == UNION { { [resultIndex |-> i, results |-> r] : i \in 1..Len(r) } : r \in SegSeqs }

\* OrderStatus
Statuses == {"placed", "preparing", "cooking", "ready", "delivered"}

\* recentOrder is null.
NoOrder == [id |-> 0, status |-> "none", items |-> <<>>]

\* No result event has been delivered yet.
NoEvent == [resultIndex |-> 0, results |-> <<>>]

\* The result events of the lifecycle specification carry one segment: an interim
\* or final " " or "a ".  SpecTranscript delivers every event of ResultEvents.
SessionEvents ==
    { [resultIndex |-> 1, results |-> << [transcript |-> t, isFinal |-> f] >>] :
        t \in { <<" ">>, <<"a", " ">> }, f \in BOOLEAN }

----------------------------------------------------------------------------
(* Pure helpers *)

IsSpace(c) == c = " "

RECURSIVE trimStart(_)
trimStart(s) == IF s # <<>> /\ IsSpace(Head(s)) THEN trimStart(Tail(s)) ELSE s

RECURSIVE trimEnd(_)
trimEnd(s) == IF s # <<>> /\ IsSpace(s[Len(s)]) THEN trimEnd(SubSeq(s, 1, Len(s) - 1)) ELSE s

\* String.prototype.trim
trim(s) == trimEnd(trimStart(s))

\* The loop of onresult with each final transcript trimmed before it is appended.
RECURSIVE finalFrom_trimsEach(_, _)
finalFrom_trimsEach(results, i) ==
    IF i > Len(results) THEN <<>>
    ELSE (IF results[i].isFinal THEN trim(results[i].transcript) ELSE <<>>)
             \o finalFrom_trimsEach(results, i + 1)

\* The loop of onresult without the isFinal test.
RECURSIVE finalFrom_includesInterim(_, _)
finalFrom_includesInterim(results, i) ==
    IF i > Len(results) THEN <<>>
    ELSE results[i].transcript \o finalFrom_includesInterim(results, i + 1)

\* The loop of onresult: concatenation of the final results from resultIndex on.
RECURSIVE finalFrom(_, _)
finalFrom(results, i) ==
    IF i > Len(results) THEN <<>>
    ELSE (IF results[i].isFinal THEN results[i].transcript ELSE <<>>) \o finalFrom(results, i + 1)

finalTranscript(event) == finalFrom(event.results, event.resultIndex)

\* location.protocol === 'https:' || location.hostname === 'localhost'
isSecure == protocol = "https:" \/ hostname = "localhost"

\* A state setter called after unmount changes nothing.
SetState(cur, new) == IF mounted THEN new ELSE cur

Toast(title, variant) == [title |-> title, variant |-> variant]

Callback(name, text) == [cb |-> name, text |-> text]

Delivered(e) == e \in events

\* toastVariant of the switch in onerror
toastVariant(code) == IF code = "no-speech" THEN "default" ELSE "destructive"

\* What the component renders.
render ==
    IF ~isSupported THEN [kind |-> "disabled", onClick |-> FALSE]
    ELSE IF hasPermission = "false" THEN [kind |-> "permission-required", onClick |-> TRUE]
    ELSE [kind |-> IF isListening THEN "listening" ELSE "idle", onClick |-> TRUE]

----------------------------------------------------------------------------
(* Initial state: the first render, before the mount effect has run *)

Init ==
    /\ \E loc \in Locations : protocol = loc[1] /\ hostname = loc[2]
    /\ engine \in BOOLEAN
    /\ mounted = TRUE
    /\ isListening = FALSE
    /\ isSupported = FALSE
    /\ hasPermission = "null"
    /\ isInitialized = FALSE
    /\ recognitionRef = "null"
    /\ cleanup = FALSE
    /\ rerunDue = FALSE
    /\ preProbe = "none"
    /\ pendingProbes = 0
    /\ probes = <<>>
    /\ sess = "inactive"
    /\ events = {}
    /\ nResults = 0
    /\ lastEvent = NoEvent
    /\ stopCalls = 0
    /\ log = <<>>
    /\ toasts = <<>>
    /\ toggles = 0
    /\ liveTracks = 0
    /\ isUserConfirmed = FALSE
    /\ orders = <<>>
    /\ recentOrder = NoOrder
    /\ interval = FALSE
    /\ currentStatusIndex = -1
    /\ rerenders = 0
    /\ recognitions = 0
    /\ orphan = "inactive"
    /\ inputValue = <<>>
    /\ messages = <<>>
    /\ isProcessing = FALSE
    /\ requests = {}
    /\ posts = [form |-> 0, voice |-> 0]
    /\ submitted = 0
    /\ currentOrder = <<>>
    /\ currentView = "menu"
    /\ showThankYou = FALSE
    /\ notice = ""
    /\ orderRequests = {}
    /\ orderPosts = 0
    /\ userOrderHistory = <<>>
    /\ loading = FALSE
    /\ loads = 0
    /\ step = "email"
    /\ email = <<>>
    /\ isLoading = FALSE
    /\ checks = {}
    /\ checkPosts = 0
    /\ thanksMounted = FALSE
    /\ currentStage = 0
    /\ progressInterval = FALSE
    /\ viewTimeouts = 0
    /\ viewTrackingCalls = 0
    /\ pageMounted = TRUE

----------------------------------------------------------------------------
(* The init effect *)

\* First run of the effect (isInitialized is false).
initEffect ==
    /\ mounted
    /\ ~isInitialized
    /\ isInitialized' = TRUE
    /\ rerunDue' = TRUE
    /\ IF engine
         THEN IF ~isSecure
                THEN /\ toasts' = Append(toasts, Toast("Voice input requires HTTPS", "destructive"))
                     /\ isSupported' = FALSE
                     /\ cleanup' = FALSE          \* early return: no cleanup function
                     /\ UNCHANGED << recognitionRef, preProbe >>
                ELSE /\ isSupported' = TRUE
                     /\ recognitionRef' = "recognition"
                     /\ preProbe' = IF hasPermission = "null" THEN "pending" ELSE preProbe
                     /\ cleanup' = TRUE
                     /\ UNCHANGED toasts
         ELSE /\ isSupported' = FALSE
              /\ toasts' = Append(toasts, Toast("Voice input not supported", "destructive"))
              /\ cleanup' = TRUE
              /\ UNCHANGED << recognitionRef, preProbe >>
    /\ UNCHANGED << envVars, restVars, pageVars, liveTracks, probes, lastEvent, mounted, isListening, hasPermission, pendingProbes,
                    sess, events, nResults, stopCalls, log, toggles >>

\* The cleanup function returned by the effect: stop() on the current recognition.
stopsByCleanup == IF cleanup /\ recognitionRef # "null" THEN 1 ELSE 0

\* A later run of the effect, after one of its dependencies changed (isInitialized,
\* testMicrophonePermission through hasPermission, or the host's callbacks, which
\* ChatInterface passes anew on every render): React runs the previous cleanup,
\* then the effect body returns at the isInitialized guard, without a cleanup.
effectRerun ==
    /\ mounted
    /\ isInitialized
    /\ stopCalls' = stopCalls + stopsByCleanup
    /\ cleanup' = FALSE
    /\ rerunDue' = FALSE
    /\ UNCHANGED << envVars, restVars, pageVars, liveTracks, probes, lastEvent, mounted, isListening, isSupported, hasPermission,
                    isInitialized, recognitionRef, preProbe, pendingProbes,
                    sess, events, nResults, log, toasts, toggles >>

\* Unmount: React runs the cleanup of the last effect run, if it returned one.
unmount ==
    /\ mounted
    /\ mounted' = FALSE
    /\ stopCalls' = stopCalls + stopsByCleanup
    /\ cleanup' = FALSE
    /\ UNCHANGED << envVars, restVars, pageVars, liveTracks, probes, lastEvent, isListening, isSupported, hasPermission, isInitialized,
                    recognitionRef, rerunDue, preProbe, pendingProbes,
                    sess, events, nResults, log, toasts, toggles >>

\* testMicrophonePermission that starts the recognition when the probe is granted.
testMicrophonePermission_startsSession(granted) ==
    /\ preProbe = "pending"
    /\ preProbe' = "done"
    /\ liveTracks' = IF granted THEN (liveTracks + 1) - 1 ELSE liveTracks
    /\ hasPermission' = SetState(hasPermission, IF granted THEN "true" ELSE "false")
    /\ sess' = IF granted /\ sess = "inactive" THEN "starting" ELSE sess
    /\ UNCHANGED << envVars, restVars, pageVars, probes, lastEvent, mounted, isListening, isSupported,
                    isInitialized, recognitionRef, cleanup, rerunDue, pendingProbes, events,
                    nResults, stopCalls, log, toasts, toggles >>

\* testMicrophonePermission, after its awaited getUserMedia settles.
testMicrophonePermission(granted) ==
    /\ preProbe = "pending"
    /\ preProbe' = "done"
    /\ liveTracks' = IF granted THEN (liveTracks + 1) - 1 ELSE liveTracks  \* track.stop()
    /\ hasPermission' = SetState(hasPermission, IF granted THEN "true" ELSE "false")
    /\ UNCHANGED << envVars, restVars, pageVars, probes, lastEvent, mounted, isListening, isSupported, isInitialized,
                    recognitionRef, cleanup, rerunDue, pendingProbes, sess, events, nResults,
                    stopCalls, log, toasts, toggles >>

----------------------------------------------------------------------------
(* toggleListening *)

\* toggleListening that takes a Denied permission status as final and returns.
toggleListening_assumesDenied ==
    /\ mounted
    /\ isInitialized
    /\ ~rerunDue
    /\ toggles < MaxToggles
    /\ toggles' = toggles + 1
    /\ log' = Append(log, Callback("toggleListening", <<>>))
    /\ IF recognitionRef = "null" \/ ~isSupported \/ hasPermission = "false"
         THEN UNCHANGED << stopCalls, pendingProbes >>
         ELSE IF isListening
                THEN /\ stopCalls' = stopCalls + 1
                     /\ UNCHANGED pendingProbes
                ELSE /\ pendingProbes' = pendingProbes + 1
                     /\ UNCHANGED stopCalls
    /\ UNCHANGED << envVars, restVars, pageVars, liveTracks, probes, lastEvent, mounted, isListening, isSupported,
                    hasPermission, isInitialized, recognitionRef, cleanup, rerunDue,
                    preProbe, sess, events, nResults, toasts >>

\* toggleListening whose stop branch ends the session on the component's side at
\* once (setIsListening(false) and handleSpeechEnd()) instead of waiting for onend.
toggleListening_endsEagerly ==
    /\ mounted
    /\ isInitialized
    /\ ~rerunDue
    /\ toggles < MaxToggles
    /\ toggles' = toggles + 1
    /\ IF recognitionRef = "null" \/ ~isSupported
         THEN /\ log' = Append(log, Callback("toggleListening", <<>>))
              /\ UNCHANGED << stopCalls, pendingProbes, isListening >>
         ELSE IF isListening
                THEN /\ stopCalls' = stopCalls + 1
                     /\ isListening' = FALSE
                     /\ log' = Append(Append(log, Callback("toggleListening", <<>>)),
                                      Callback("onSpeechEnd", <<>>))
                     /\ UNCHANGED pendingProbes
                ELSE /\ pendingProbes' = pendingProbes + 1
                     /\ log' = Append(log, Callback("toggleListening", <<>>))
                     /\ UNCHANGED << stopCalls, isListening >>
    /\ UNCHANGED << envVars, restVars, pageVars, liveTracks, probes, lastEvent, mounted, isSupported, hasPermission,
                    isInitialized, recognitionRef, cleanup, rerunDue, preProbe,
                    sess, events, nResults, toasts >>

\* The click handler up to its await.
toggleListening ==
    /\ mounted
    /\ isInitialized
    /\ ~rerunDue
    /\ toggles < MaxToggles
    /\ toggles' = toggles + 1
    /\ log' = Append(log, Callback("toggleListening", <<>>))
    /\ IF recognitionRef = "null" \/ ~isSupported
         THEN UNCHANGED << stopCalls, pendingProbes >>
         ELSE IF isListening
                THEN /\ stopCalls' = stopCalls + 1
                     /\ UNCHANGED pendingProbes
                ELSE /\ pendingProbes' = pendingProbes + 1
                     /\ UNCHANGED stopCalls
    /\ UNCHANGED << envVars, restVars, pageVars, liveTracks, probes, lastEvent, mounted, isListening, isSupported, hasPermission,
                    isInitialized, recognitionRef, cleanup, rerunDue, preProbe,
                    sess, events, nResults, toasts >>

\* toggleListening whose catch block omits the toast.
toggleProbeSettled_silentDenial(granted) ==
    /\ pendingProbes > 0
    /\ pendingProbes' = pendingProbes - 1
    /\ liveTracks' = IF granted THEN (liveTracks + 1) - 1 ELSE liveTracks  \* track.stop()
    /\ IF granted /\ sess = "inactive"
         THEN /\ hasPermission' = SetState(hasPermission, "true")
              /\ sess' = "starting"
              /\ probes' = <<>>
              /\ events' = {}
              /\ nResults' = 0
              /\ lastEvent' = NoEvent
              /\ stopCalls' = 0
              /\ log' = <<>>
              /\ toasts' = <<>>
         ELSE /\ hasPermission' = SetState(hasPermission, "false")
              /\ probes' = Append(probes, IF granted THEN "granted" ELSE "denied")
              /\ UNCHANGED << sess, events, nResults, lastEvent, stopCalls, log, toasts >>
    /\ UNCHANGED << envVars, restVars, pageVars, mounted, isListening, isSupported, isInitialized,
                    recognitionRef, cleanup, rerunDue, preProbe, toggles >>

\* The rest of toggleListening once getUserMedia settles.  recognition.start()
\* throws InvalidStateError when the session has been started and has not ended.
toggleProbeSettled(granted) ==
    /\ pendingProbes > 0
    /\ pendingProbes' = pendingProbes - 1
    /\ liveTracks' = IF granted THEN (liveTracks + 1) - 1 ELSE liveTracks  \* track.stop()
    /\ IF granted /\ sess = "inactive"
         THEN /\ hasPermission' = SetState(hasPermission, "true")
              /\ sess' = "starting"
              /\ probes' = <<>>
              /\ events' = {}
              /\ nResults' = 0
              /\ lastEvent' = NoEvent
              /\ stopCalls' = 0
              /\ log' = <<>>
              /\ toasts' = <<>>
         ELSE /\ hasPermission' = SetState(hasPermission, "false")
              /\ probes' = Append(probes, IF granted THEN "granted" ELSE "denied")
              /\ toasts' = Append(toasts, Toast("Microphone access required", "destructive"))
              /\ UNCHANGED << sess, events, nResults, lastEvent, stopCalls, log >>
    /\ UNCHANGED << envVars, restVars, pageVars, mounted, isListening, isSupported, isInitialized,
                    recognitionRef, cleanup, rerunDue, preProbe, toggles >>

----------------------------------------------------------------------------
(* The recognition object's event handlers, with the adapter's session state *)
(*                                                                         *)
(* The platform delivers start first (or an error in its place), result    *)
(* and speech events only between start and error/end (also after stop()   *)
(* has been called), at most one error, and end last; start() on a session *)
(* that has not ended throws.                                              *)

\* onstart without the handleSpeechStart() call.
onstart_noSpeechStart ==
    /\ sess = "starting"
    /\ sess' = "active"
    /\ events' = events \cup {"start"}
    /\ isListening' = SetState(isListening, TRUE)
    /\ toasts' = Append(toasts, Toast("Listening...", "default"))
    /\ UNCHANGED << envVars, restVars, pageVars, liveTracks, probes, lastEvent, mounted, isSupported, hasPermission, isInitialized,
                    recognitionRef, cleanup, rerunDue, preProbe, pendingProbes,
                    nResults, stopCalls, log, toggles >>

onstart ==
    /\ sess = "starting"
    /\ sess' = "active"
    /\ events' = events \cup {"start"}
    /\ isListening' = SetState(isListening, TRUE)
    /\ log' = Append(log, Callback("onSpeechStart", <<>>))
    /\ toasts' = Append(toasts, Toast("Listening...", "default"))
    /\ UNCHANGED << envVars, restVars, pageVars, liveTracks, probes, lastEvent, mounted, isSupported, hasPermission, isInitialized,
                    recognitionRef, cleanup, rerunDue, preProbe, pendingProbes,
                    nResults, stopCalls, toggles >>

onresult(event) ==
    /\ sess = "active"
    /\ nResults < MaxResults
    /\ nResults' = nResults + 1
    /\ events' = events \cup {"result"}
    /\ IF trim(finalTranscript(event)) # <<>>
         THEN /\ log' = Append(log, Callback("onVoiceInput", trim(finalTranscript(event))))
              /\ stopCalls' = stopCalls + 1
         ELSE UNCHANGED << log, stopCalls >>
    /\ UNCHANGED << envVars, restVars, pageVars, liveTracks, probes, mounted, isListening, isSupported, hasPermission,
                    isInitialized, recognitionRef, cleanup, rerunDue, preProbe,
                    pendingProbes, sess, toasts, toggles >>

\* onend that omits setIsListening(false).
onend_staysListening ==
    /\ sess \in {"active", "errored"}
    /\ sess' = "inactive"
    /\ events' = events \cup {"end"}
    /\ log' = Append(log, Callback("onSpeechEnd", <<>>))
    /\ UNCHANGED << envVars, restVars, pageVars, liveTracks, probes, lastEvent, mounted, isListening,
                    isSupported, hasPermission, isInitialized, recognitionRef, cleanup,
                    rerunDue, preProbe, pendingProbes, nResults, stopCalls, toasts, toggles >>

onend ==
    /\ sess \in {"active", "errored"}
    /\ sess' = "inactive"
    /\ events' = events \cup {"end"}
    /\ isListening' = SetState(isListening, FALSE)
    /\ log' = Append(log, Callback("onSpeechEnd", <<>>))
    /\ UNCHANGED << envVars, restVars, pageVars, liveTracks, probes, lastEvent, mounted, isSupported, hasPermission, isInitialized,
                    recognitionRef, cleanup, rerunDue, preProbe, pendingProbes,
                    nResults, stopCalls, toasts, toggles >>

\* onerror whose 'not-allowed' case omits setHasPermission(false).
onerror_keepsPermission(code) ==
    /\ sess \in {"starting", "active"}
    /\ sess' = "errored"
    /\ events' = events \cup {code}
    /\ isListening' = SetState(isListening, FALSE)
    /\ log' = Append(log, Callback("onSpeechEnd", <<>>))
    /\ toasts' = Append(toasts, Toast("Voice input error", toastVariant(code)))
    /\ UNCHANGED << envVars, restVars, pageVars, liveTracks, probes, lastEvent, mounted, isSupported, hasPermission, isInitialized,
                    recognitionRef, cleanup, rerunDue, preProbe, pendingProbes,
                    nResults, stopCalls, toggles >>

\* onerror that omits setIsListening(false).
onerror_staysListening(code) ==
    /\ sess \in {"starting", "active"}
    /\ sess' = "errored"
    /\ events' = events \cup {code}
    /\ log' = Append(log, Callback("onSpeechEnd", <<>>))
    /\ hasPermission' = IF code = "not-allowed" THEN SetState(hasPermission, "false")
                        ELSE hasPermission
    /\ toasts' = Append(toasts, Toast("Voice input error", toastVariant(code)))
    /\ UNCHANGED << envVars, restVars, pageVars, liveTracks, probes, lastEvent, mounted, isListening, isSupported, isInitialized,
                    recognitionRef, cleanup, rerunDue, preProbe, pendingProbes,
                    nResults, stopCalls, toggles >>

onerror(code) ==
    /\ sess \in {"starting", "active"}
    /\ sess' = "errored"
    /\ events' = events \cup {code}
    /\ isListening' = SetState(isListening, FALSE)
    /\ log' = Append(log, Callback("onSpeechEnd", <<>>))
    /\ hasPermission' = IF code = "not-allowed" THEN SetState(hasPermission, "false")
                        ELSE hasPermission
    /\ toasts' = Append(toasts, Toast("Voice input error", toastVariant(code)))
    /\ UNCHANGED << envVars, restVars, pageVars, liveTracks, probes, lastEvent, mounted, isSupported, isInitialized, recognitionRef,
                    cleanup, rerunDue, preProbe, pendingProbes, nResults, stopCalls, toggles >>

onspeechstart ==
    /\ sess = "active"
    /\ ~Delivered("speechstart")
    /\ events' = events \cup {"speechstart"}
    /\ UNCHANGED << envVars, restVars, pageVars, liveTracks, probes, lastEvent, mounted, isListening, isSupported, hasPermission,
                    isInitialized, recognitionRef, cleanup, rerunDue, preProbe,
                    pendingProbes, sess, nResults, stopCalls, log, toasts, toggles >>

onspeechend ==
    /\ sess = "active"
    /\ Delivered("speechstart")
    /\ ~Delivered("speechend")
    /\ events' = events \cup {"speechend"}
    /\ UNCHANGED << envVars, restVars, pageVars, liveTracks, probes, lastEvent, mounted, isListening, isSupported, hasPermission,
                    isInitialized, recognitionRef, cleanup, rerunDue, preProbe,
                    pendingProbes, sess, nResults, stopCalls, log, toasts, toggles >>

----------------------------------------------------------------------------

Next ==
    \/ initEffect
    \/ effectRerun
    \/ unmount
    \/ \E granted \in BOOLEAN : testMicrophonePermission(granted)
    \/ toggleListening
    \/ \E granted \in BOOLEAN : toggleProbeSettled(granted)
    \/ onstart
    \/ \E event \in SessionEvents : onresult(event) /\ UNCHANGED lastEvent
    \/ onend
    \/ \E code \in ErrorCodes : onerror(code)
    \/ onspeechstart
    \/ onspeechend

Spec == Init /\ [][Next]_vars

\* One session that runs to its end without an error, an unmount or a settled
\* pre-probe, and receives at most one result event, of up to MaxSegs segments.
NextTranscript ==
    \/ initEffect
    \/ effectRerun
    \/ toggleListening /\ toggles = 0
    \/ \E granted \in BOOLEAN : toggleProbeSettled(granted)
    \/ onstart
    \/ \E event \in ResultEvents : onresult(event) /\ nResults = 0 /\ lastEvent' = event
    \/ onend

SpecTranscript == Init /\ [][NextTranscript]_vars

----------------------------------------------------------------------------
(* Part 2: the VoiceButton of components/VoiceButton.tsx                    *)
(*                                                                         *)
(* This revision has no permission state, no isInitialized guard, no       *)
(* secure-context test and no toasts; its recognition is continuous and    *)
(* its failures are reported with window.alert.  Its effect depends on the *)
(* host's callbacks; the host modelled here passes the same callbacks on   *)
(* every render, so the effect runs once, at mount.  hasPermission,        *)
(* isInitialized, rerunDue and preProbe are not used by this revision and  *)
(* keep their initial values.                                              *)

unusedB == << hasPermission, isInitialized, rerunDue, preProbe >>

\* The mount effect: support is the existence of the engine, nothing else.
initEffectB ==
    /\ mounted
    /\ ~cleanup
    /\ isSupported' = engine
    /\ recognitionRef' = IF engine THEN "recognition" ELSE recognitionRef
    /\ cleanup' = TRUE
    /\ recognitions' = IF engine THEN recognitions + 1 ELSE recognitions
    /\ UNCHANGED << envVars, chatVars, viewVars, cartVars, otherVars, rerenders, orphan, pageVars, liveTracks, probes, unusedB, mounted, isListening, pendingProbes, sess, events,
                    nResults, lastEvent, stopCalls, log, toasts, toggles >>

\* A host re-render that passes new callback identities (ChatInterface passes a new
\* handleVoiceResult on every render): the effect's dependencies changed, so React
\* runs the cleanup, which stops the current recognition, and runs the effect
\* again, which creates a new recognition object with new handlers.  The replaced
\* object's session, if alive, becomes an orphan whose handlers still run.
effectRerunB ==
    /\ mounted
    /\ cleanup
    /\ rerenders < MaxRerenders
    /\ orphan = "inactive"
    /\ rerenders' = rerenders + 1
    /\ stopCalls' = stopCalls + stopsByCleanup
    /\ isSupported' = engine
    /\ IF engine
         THEN /\ recognitions' = recognitions + 1
              /\ recognitionRef' = "recognition"
              /\ orphan' = sess
              /\ sess' = "inactive"
         ELSE UNCHANGED << recognitions, recognitionRef, orphan, sess >>
    /\ UNCHANGED << envVars, chatVars, viewVars, cartVars, otherVars, pageVars, liveTracks, probes, unusedB, mounted, isListening,
                    cleanup, pendingProbes, events, nResults, lastEvent, log, toasts,
                    toggles >>

\* The end event of the replaced recognition object's session: its onend handler
\* (of the earlier effect run) calls setIsListening(false) and the earlier onSpeechEnd.
onendOrphanB ==
    /\ orphan # "inactive"
    /\ orphan' = "inactive"
    /\ isListening' = SetState(isListening, FALSE)
    /\ log' = Append(log, Callback("onSpeechEnd", <<>>))
    /\ UNCHANGED << envVars, chatVars, viewVars, cartVars, otherVars, pageVars, liveTracks, probes, unusedB, rerenders, recognitions,
                    mounted, isSupported, recognitionRef, cleanup, pendingProbes, sess,
                    events, nResults, lastEvent, stopCalls, toasts, toggles >>

\* Unmount: the cleanup stops the current recognition.
unmountB ==
    /\ mounted
    /\ mounted' = FALSE
    /\ stopCalls' = stopCalls + stopsByCleanup
    /\ cleanup' = FALSE
    /\ UNCHANGED << envVars, restVars, pageVars, liveTracks, probes, unusedB, isListening, isSupported, recognitionRef,
                    pendingProbes, sess, events, nResults, lastEvent, log, toasts, toggles >>

\* The click handler up to its await.
toggleListeningB ==
    /\ mounted
    /\ cleanup
    /\ toggles < MaxToggles
    /\ toggles' = toggles + 1
    /\ log' = Append(log, Callback("toggleListening", <<>>))
    /\ IF recognitionRef = "null" \/ ~isSupported
         THEN UNCHANGED << stopCalls, pendingProbes >>
         ELSE IF isListening
                THEN /\ stopCalls' = stopCalls + 1
                     /\ UNCHANGED pendingProbes
                ELSE /\ pendingProbes' = pendingProbes + 1
                     /\ UNCHANGED stopCalls
    /\ UNCHANGED << envVars, restVars, pageVars, liveTracks, probes, unusedB, mounted, isListening, isSupported, recognitionRef,
                    cleanup, sess, events, nResults, lastEvent, toasts >>

\* The rest of toggleListening once getUserMedia settles: start(), or the alert of
\* the catch block (also when start() throws on a session that has not ended).
toggleProbeSettledB(granted) ==
    /\ pendingProbes > 0
    /\ pendingProbes' = pendingProbes - 1
    /\ liveTracks' = IF granted THEN liveTracks + 1 ELSE liveTracks  \* stream dropped
    /\ IF granted /\ sess = "inactive"
         THEN /\ sess' = "starting"
              /\ probes' = <<>>
              /\ events' = {}
              /\ nResults' = 0
              /\ lastEvent' = NoEvent
              /\ stopCalls' = 0
              /\ log' = <<>>
              /\ toasts' = <<>>
         ELSE /\ probes' = Append(probes, IF granted THEN "granted" ELSE "denied")
              /\ toasts' = Append(toasts, Toast("Microphone access is required", "alert"))
              /\ UNCHANGED << sess, events, nResults, lastEvent, stopCalls, log >>
    /\ UNCHANGED << envVars, restVars, pageVars,  unusedB, mounted, isListening, isSupported, recognitionRef,
                    cleanup, toggles >>

onstartB ==
    /\ sess = "starting"
    /\ sess' = "active"
    /\ events' = events \cup {"start"}
    /\ isListening' = SetState(isListening, TRUE)
    /\ log' = Append(log, Callback("onSpeechStart", <<>>))
    /\ UNCHANGED << envVars, restVars, pageVars, liveTracks, probes, unusedB, mounted, isSupported, recognitionRef, cleanup,
                    pendingProbes, nResults, lastEvent, stopCalls, toasts, toggles >>

\* onresult forwards the untrimmed concatenation.
onresultB(event) ==
    /\ sess = "active"
    /\ nResults < MaxResults
    /\ nResults' = nResults + 1
    /\ events' = events \cup {"result"}
    /\ IF trim(finalTranscript(event)) # <<>>
         THEN /\ log' = Append(log, Callback("onVoiceInput", finalTranscript(event)))
              /\ stopCalls' = stopCalls + 1
         ELSE UNCHANGED << log, stopCalls >>
    /\ UNCHANGED << envVars, restVars, pageVars, liveTracks, probes, unusedB, mounted, isListening, isSupported, recognitionRef,
                    cleanup, pendingProbes, sess, toasts, toggles >>

onendB ==
    /\ sess \in {"active", "errored"}
    /\ sess' = "inactive"
    /\ events' = events \cup {"end"}
    /\ isListening' = SetState(isListening, FALSE)
    /\ log' = Append(log, Callback("onSpeechEnd", <<>>))
    /\ UNCHANGED << envVars, restVars, pageVars, liveTracks, probes, unusedB, mounted, isSupported, recognitionRef, cleanup,
                    pendingProbes, nResults, lastEvent, stopCalls, toasts, toggles >>

\* onerror: console output, then setIsListening(false) and onSpeechEnd.
onerrorB(code) ==
    /\ sess \in {"starting", "active"}
    /\ sess' = "errored"
    /\ events' = events \cup {code}
    /\ isListening' = SetState(isListening, FALSE)
    /\ log' = Append(log, Callback("onSpeechEnd", <<>>))
    /\ UNCHANGED << envVars, restVars, pageVars, liveTracks, probes, unusedB, mounted, isSupported, recognitionRef, cleanup,
                    pendingProbes, nResults, lastEvent, stopCalls, toasts, toggles >>

NextB ==
    \/ initEffectB
    \/ effectRerunB
    \/ onendOrphanB
    \/ unmountB
    \/ toggleListeningB
    \/ \E granted \in BOOLEAN : toggleProbeSettledB(granted)
    \/ onstartB
    \/ \E event \in SessionEvents : onresultB(event) /\ UNCHANGED lastEvent
    \/ onendB
    \/ \E code \in ErrorCodes : onerrorB(code)
    \/ onspeechstart
    \/ onspeechend

SpecB == Init /\ [][NextB]_vars

----------------------------------------------------------------------------
(* Part 3: the orders of the Index page and their live status simulation   *)
(*                                                                         *)
(* Every setRecentOrder call stores a new object, so the simulation effect *)
(* (dependency: recentOrder) is cleaned up and run again after each of the *)
(* handlers below; the re-run is part of the handler's action.             *)

\* The order histories the backend returns: orders 1..n, each in any status.
Histories ==
    UNION { { [ i \in 1..n |-> [id |-> i, status |-> st[i], items |-> <<>>] ] : st \in [1..n -> Statuses] } :
            n \in 0..MaxOrders }

\* Outcomes of the greeting fetch: the backend's greeting, a response that is not
\* ok, and the default greeting of the catch block.
Greetings == {"greeting", "not ok", "Welcome!"}

statusFlow == << "placed", "preparing", "cooking", "ready" >>

\* statusFlow.indexOf(status), counted from 0; -1 when the status is not in the flow.
indexOf(status) ==
    IF \E i \in 1..Len(statusFlow) : statusFlow[i] = status
      THEN (CHOOSE i \in 1..Len(statusFlow) : statusFlow[i] = status) - 1
      ELSE -1

\* The body of the simulation effect, run for the order just stored.
effectIndex(order) == IF order = NoOrder THEN currentStatusIndex ELSE indexOf(order.status)

\* A chat message of the bot.
Bot(content) == [type |-> "bot", content |-> content]

\* A chat message of the user.
User(content) == [type |-> "user", content |-> content]

\* The state changes of handleUserConfirmed: the user is confirmed, the order
\* history is fetched and becomes the orders list, its first order becomes the
\* recent order; then the greeting is fetched and appended to the chat (a
\* response that is not ok appends nothing, a rejected fetch appends the default
\* greeting).
onUserConfirmed(ok, history, greeting) ==
    /\ isUserConfirmed' = TRUE
    /\ IF ok
         THEN /\ orders' = history
              /\ IF Len(history) > 0
                   THEN /\ recentOrder' = history[1]
                        /\ interval' = TRUE
                        /\ currentStatusIndex' = effectIndex(history[1])
                   ELSE UNCHANGED << recentOrder, interval, currentStatusIndex >>
         ELSE UNCHANGED << orders, recentOrder, interval, currentStatusIndex >>
    /\ messages' = IF greeting = "not ok" THEN messages
                   ELSE Append(messages, Bot(<<greeting>>))

\* handleUserConfirmed, called by the email gate or by the mount effect of the
\* page for a stored email.
handleUserConfirmed(ok, history, greeting) ==
    /\ ~isUserConfirmed
    /\ onUserConfirmed(ok, history, greeting)
    /\ UNCHANGED << envVars, voiceVars, rerunVars, otherVars, cartVars, viewVars, inputValue,
                    isProcessing, requests, posts, submitted >>

\* An order has been placed (from the menu or the cart with status 'placed', from
\* the chat with the status the backend reports).
orderPlaced(status) ==
    /\ Len(orders) < MaxOrders
    /\ LET newOrder == [id |-> Len(orders) + 1, status |-> status, items |-> <<>>] IN
         /\ orders' = Append(orders, newOrder)
         /\ recentOrder' = newOrder
         /\ interval' = TRUE
         /\ currentStatusIndex' = effectIndex(newOrder)
    /\ UNCHANGED << envVars, restVars, voiceVars, isUserConfirmed >>

\* The interval callback of the simulation effect (every 8 seconds); every new
\* status of the flow has a status message, which is appended to the chat.
tick ==
    /\ interval
    /\ IF currentStatusIndex < Len(statusFlow) - 1
         THEN LET newStatus == statusFlow[currentStatusIndex + 2] IN
                /\ recentOrder' = [recentOrder EXCEPT !.status = newStatus]
                /\ orders' = [ i \in 1..Len(orders) |->
                                 IF orders[i].id = recentOrder.id
                                   THEN [orders[i] EXCEPT !.status = newStatus]
                                   ELSE orders[i] ]
                /\ messages' = Append(messages, Bot(<<newStatus>>))
                /\ interval' = TRUE
                /\ currentStatusIndex' = indexOf(newStatus)
         ELSE /\ interval' = FALSE
              /\ UNCHANGED << orders, recentOrder, currentStatusIndex, messages >>
    /\ UNCHANGED << envVars, voiceVars, rerunVars, otherVars, cartVars, viewVars, isUserConfirmed, inputValue,
                    isProcessing, requests, posts, submitted >>

\* handleLogout / handleClearUserData: the user, the orders, the chat and the cart
\* are cleared and the view is the menu again.
handleLogout ==
    /\ isUserConfirmed
    /\ isUserConfirmed' = FALSE
    /\ orders' = <<>>
    /\ recentOrder' = NoOrder
    /\ interval' = FALSE
    /\ messages' = <<>>
    /\ currentOrder' = <<>>
    /\ showThankYou' = FALSE
    /\ currentView' = "menu"
    /\ notice' = "Logged out successfully!"
    /\ UNCHANGED << envVars, voiceVars, rerunVars, otherVars, cartVars, currentStatusIndex, inputValue,
                    isProcessing, requests, posts, submitted >>

NextOrders ==
    \/ \E ok \in BOOLEAN, history \in Histories : handleUserConfirmed(ok, history, "not ok")
    \/ \E status \in Statuses : orderPlaced(status)
    \/ tick
    \/ handleLogout

SpecOrders == Init /\ [][NextOrders]_vars

-----------------------------------------------------------------------------
(* Part 4: the chat of the Index page (src/unnamed/part_001) and of
   ChatInterface (src/unnamed/part_002).  handleSubmit of ChatInterface posts
   the typed message to /chat and, whatever the outcome, hands the message to
   onSendMessage, which is handleSendMessage of the Index page; a transcript of
   the voice button reaches handleSendMessage through handleVoiceInput. *)

\* Texts the user types into the input.
Inputs == { <<" ">>, <<" ", "a">> }

\* Transcripts the voice button delivers.
Spoken == { <<"b">> }

\* Outcomes of handleSendMessage's POST: the fetch fails or is not ok, a reply
\* without action, and a reply with the action order_placed and its order data.
ChatResponses == {"failed", "reply", "order_placed"}

\* The page renders the chat: it is mounted, the user is confirmed and the
\* thank-you page is not shown in its place.
ChatRendered == pageMounted /\ isUserConfirmed /\ ~(showThankYou /\ recentOrder # NoOrder)

\* Messages sent through the chat so far.
Sent == submitted + posts.voice

\* onChange of the Input (disabled while isProcessing).
setInputValue(text) ==
    /\ ChatRendered
    /\ ~isProcessing
    /\ inputValue # text
    /\ inputValue' = text
    /\ UNCHANGED << envVars, voiceVars, pageVars, rerunVars, otherVars, cartVars, viewVars, messages, isProcessing,
                    requests, posts, submitted >>

\* The first part of handleSendMessage: the user's message is appended,
\* isProcessing is set and the message is posted to /chat.
handleSendMessage(message, origin) ==
    /\ messages' = Append(messages, User(message))
    /\ isProcessing' = TRUE
    /\ posts' = [posts EXCEPT ![origin] = @ + 1]

\* ChatInterface.handleSubmit up to its await: the trimmed input is posted to /chat.
handleSubmit ==
    /\ ChatRendered
    /\ Sent < MaxMessages
    /\ trim(inputValue) # <<>>
    /\ ~isProcessing
    /\ inputValue' = <<>>
    /\ submitted' = submitted + 1
    /\ posts' = [posts EXCEPT !.form = @ + 1]
    /\ requests' = requests \cup { [id |-> posts.form + posts.voice + 1, kind |-> "form",
                                    origin |-> "form", message |-> trim(inputValue)] }
    /\ UNCHANGED << envVars, voiceVars, pageVars, rerunVars, otherVars, cartVars, viewVars, messages, isProcessing >>

\* handleSubmit after its await: on an ok response, on a response that is not ok
\* and on a rejected fetch alike it calls onSendMessage(userMessage).
handleSubmitSettled(r) ==
    /\ r \in requests
    /\ r.kind = "form"
    /\ handleSendMessage(r.message, "form")
    /\ requests' = (requests \ {r}) \cup { [id |-> posts.form + posts.voice + 1, kind |-> "page",
                                            origin |-> "form", message |-> r.message] }
    /\ UNCHANGED << envVars, voiceVars, pageVars, rerunVars, otherVars, cartVars, viewVars, inputValue, submitted >>

\* Index.handleVoiceInput: handleSendMessage(text).
handleVoiceInput(text) ==
    /\ ChatRendered
    /\ Sent < MaxMessages
    /\ notice' = "Voice input received"
    /\ handleSendMessage(text, "voice")
    /\ requests' = requests \cup { [id |-> posts.form + posts.voice + 1, kind |-> "page",
                                    origin |-> "voice", message |-> text] }
    /\ UNCHANGED << envVars, voiceVars, pageVars, rerunVars, otherVars, cartVars, currentOrder, currentView,
                    showThankYou, inputValue, submitted >>

\* handleSendMessage after its await (on the mounted page): the reply (or the apology of the catch
\* block) is appended, the action of the reply is carried out and isProcessing
\* is cleared.  order_placed appends the order of the reply, makes it the recent
\* order (the simulation effect runs for it), empties the cart and shows the
\* thank-you page.
handleSendMessageSettled(r, response) ==
    /\ pageMounted
    /\ r \in requests
    /\ r.kind = "page"
    /\ response = "order_placed" => Len(orders) < MaxOrders
    /\ requests' = requests \ {r}
    /\ messages' = Append(messages, Bot(<<response>>))
    /\ isProcessing' = FALSE
    /\ IF response = "order_placed"
         THEN LET newOrder == [id |-> Len(orders) + 1, status |-> "placed", items |-> <<>>] IN
                /\ orders' = Append(orders, newOrder)
                /\ recentOrder' = newOrder
                /\ interval' = TRUE
                /\ currentStatusIndex' = effectIndex(newOrder)
                /\ currentOrder' = <<>>
                /\ showThankYou' = TRUE
                /\ currentView' = "thankyou"
                /\ notice' = "Order placed successfully! (party popper)"
         ELSE UNCHANGED << orders, recentOrder, interval, currentStatusIndex, viewVars >>
    /\ UNCHANGED << envVars, voiceVars, rerunVars, otherVars, cartVars, isUserConfirmed, inputValue, posts,
                    submitted >>

\* The page renders the thank-you screen in place of everything else.
ThankYouRendered == pageMounted /\ isUserConfirmed /\ showThankYou /\ recentOrder # NoOrder

\* The state changes of Index.handleViewTracking: the thank-you screen is left
\* for the view 'track'; the screen is unmounted, its cleanup clears the
\* interval and its state is gone.
onViewTracking ==
    /\ showThankYou' = FALSE
    /\ currentView' = "track"
    /\ thanksMounted' = FALSE
    /\ progressInterval' = FALSE
    /\ currentStage' = 0

\* Index.handleViewTracking, the onViewTracking of the thank-you screen.
handleViewTracking ==
    /\ ThankYouRendered
    /\ onViewTracking
    /\ UNCHANGED << envVars, voiceVars, pageVars, rerunVars, trackVars, gateVars, cartVars,
                    chatVars, currentOrder, notice, viewTimeouts, viewTrackingCalls,
                    pageMounted >>

NextChat ==
    \/ \E greeting \in Greetings : handleUserConfirmed(TRUE, <<>>, greeting)
    \/ \E text \in Inputs : setInputValue(text)
    \/ handleSubmit
    \/ \E r \in requests : handleSubmitSettled(r)
    \/ \E text \in Spoken : handleVoiceInput(text)
    \/ \E r \in requests, response \in ChatResponses : handleSendMessageSettled(r, response)
    \/ handleViewTracking
    \/ handleLogout

SpecChat == Init /\ [][NextChat]_vars

-----------------------------------------------------------------------------
(* Part 5: the cart of the Index page (src/unnamed/part_001): handleAddToOrder
   and placeOrder.  Prices are in cents. *)

\* The menu: items with distinct ids.
MenuItems == { [id |-> 1, price |-> 899], [id |-> 2, price |-> 1250] }

\* currentOrder.reduce((sum, item) => sum + (item.price * item.quantity), 0)
RECURSIVE total(_)
total(cart) ==
    IF cart = <<>> THEN 0 ELSE Head(cart).price * Head(cart).quantity + total(Tail(cart))

\* Pizzas in the cart.
RECURSIVE quantity(_)
quantity(cart) == IF cart = <<>> THEN 0 ELSE Head(cart).quantity + quantity(Tail(cart))

\* The page renders the menu panel with the cart.
MenuRendered == ChatRendered /\ currentView = "menu"

\* The Menu and Track buttons of the header.
setCurrentView(view) ==
    /\ ChatRendered
    /\ currentView # view
    /\ currentView' = view
    /\ UNCHANGED << envVars, voiceVars, pageVars, rerunVars, otherVars, cartVars, chatVars, currentOrder,
                    showThankYou, notice >>

\* handleAddToOrder with every item appended as a new entry.
handleAddToOrder_alwaysAppends(item) ==
    /\ MenuRendered
    /\ quantity(currentOrder) < MaxQuantity
    /\ currentOrder' = Append(currentOrder, [id |-> item.id, price |-> item.price, quantity |-> 1])
    /\ notice' = "Added to order!"
    /\ messages' = Append(messages, Bot(<<"added", ToString(total(currentOrder) + item.price)>>))
    /\ UNCHANGED << envVars, voiceVars, pageVars, rerunVars, otherVars, cartVars, inputValue, isProcessing,
                    requests, posts, submitted, currentView, showThankYou >>

\* handleAddToOrder: the entry of an item already in the cart gets its quantity
\* incremented, a new item is appended with quantity 1; a toast and a bot message
\* with the new total follow.
handleAddToOrder(item) ==
    /\ MenuRendered
    /\ quantity(currentOrder) < MaxQuantity
    /\ LET existingItem == \E i \in 1..Len(currentOrder) : currentOrder[i].id = item.id IN
         currentOrder' =
           IF existingItem
             THEN [ i \in 1..Len(currentOrder) |->
                      IF currentOrder[i].id = item.id
                        THEN [currentOrder[i] EXCEPT !.quantity = @ + 1]
                        ELSE currentOrder[i] ]
             ELSE Append(currentOrder, [id |-> item.id, price |-> item.price, quantity |-> 1])
    /\ notice' = "Added to order!"
    /\ messages' = Append(messages, Bot(<<"added", ToString(total(currentOrder) + item.price)>>))
    /\ UNCHANGED << envVars, voiceVars, pageVars, rerunVars, otherVars, cartVars, inputValue, isProcessing,
                    requests, posts, submitted, currentView, showThankYou >>

\* placeOrder up to its await: nothing with an empty cart, else the names of the
\* cart's items are posted to /order.
placeOrder ==
    /\ MenuRendered
    /\ orderPosts < MaxPosts
    /\ currentOrder # <<>>
    /\ orderPosts' = orderPosts + 1
    /\ orderRequests' = orderRequests \cup { [id |-> orderPosts + 1, items |-> currentOrder] }
    /\ UNCHANGED << envVars, voiceVars, pageVars, rerunVars, otherVars, chatVars, viewVars >>

\* placeOrder after its await with the cart emptied on failure as well.
placeOrderSettled_clearsOnFailure(r, ok) ==
    /\ r \in orderRequests
    /\ ok => Len(orders) < MaxOrders
    /\ orderRequests' = orderRequests \ {r}
    /\ IF ok
         THEN LET newOrder == [id |-> Len(orders) + 1, status |-> "placed", items |-> r.items] IN
                /\ orders' = Append(orders, newOrder)
                /\ recentOrder' = newOrder
                /\ interval' = TRUE
                /\ currentStatusIndex' = effectIndex(newOrder)
                /\ currentOrder' = <<>>
                /\ currentView' = "track"
                /\ notice' = "Order placed successfully!"
                /\ messages' = Append(messages, Bot(<<"placed", ToString(total(r.items))>>))
         ELSE /\ notice' = "Error placing order"
              /\ currentOrder' = <<>>
              /\ UNCHANGED << orders, recentOrder, interval, currentStatusIndex, currentView,
                              messages >>
    /\ UNCHANGED << envVars, voiceVars, rerunVars, otherVars, isUserConfirmed, inputValue, isProcessing,
                    requests, posts, submitted, orderPosts, showThankYou >>

\* placeOrder after its await: on an ok response the order is built from the
\* cart of the call (the currentOrder of the callback's closure), appended and
\* made the recent order (the simulation effect runs for it), the cart is
\* emptied, the view becomes 'track', a toast and a bot message follow; a
\* response that is not ok and a rejected fetch only show the error toast.
placeOrderSettled(r, ok) ==
    /\ r \in orderRequests
    /\ ok => Len(orders) < MaxOrders
    /\ orderRequests' = orderRequests \ {r}
    /\ IF ok
         THEN LET newOrder == [id |-> Len(orders) + 1, status |-> "placed", items |-> r.items] IN
                /\ orders' = Append(orders, newOrder)
                /\ recentOrder' = newOrder
                /\ interval' = TRUE
                /\ currentStatusIndex' = effectIndex(newOrder)
                /\ currentOrder' = <<>>
                /\ currentView' = "track"
                /\ notice' = "Order placed successfully!"
                /\ messages' = Append(messages, Bot(<<"placed", ToString(total(r.items))>>))
         ELSE /\ notice' = "Error placing order"
              /\ UNCHANGED << orders, recentOrder, interval, currentStatusIndex, currentOrder,
                              currentView, messages >>
    /\ UNCHANGED << envVars, voiceVars, rerunVars, otherVars, isUserConfirmed, inputValue, isProcessing,
                    requests, posts, submitted, orderPosts, showThankYou >>

NextCart ==
    \/ handleUserConfirmed(TRUE, <<>>, "not ok")
    \/ \E view \in {"menu", "track"} : setCurrentView(view)
    \/ \E item \in MenuItems : handleAddToOrder(item)
    \/ placeOrder
    \/ \E r \in orderRequests, ok \in BOOLEAN : placeOrderSettled(r, ok)

SpecCart == Init /\ [][NextCart]_vars

-----------------------------------------------------------------------------
(* Part 6: OrderTracking (src/unnamed/part_002), rendered by the Index page in
   the view 'track' with the page's orders.  It fetches the user's order
   history itself (on mount, every 5 seconds and on the refresh button) and
   shows the page's orders and the fetched records in one list. *)

\* Status values of a record of the backend: the five known values and one
\* outside them.
BackendStatuses == Statuses \cup {"cancelled"}

\* A record of the backend: order_id, created_at and, unless it is missing, status.
BackendOrder(i, st) ==
    IF st = "missing" THEN [order_id |-> i, created_at |-> i]
    ELSE [order_id |-> i, created_at |-> i, status |-> st]

\* The histories the backend answers with: orders 1..n in the order of their ids.
BackendHistories ==
    UNION { { [ i \in 1..n |-> BackendOrder(i, st[i]) ] :
                st \in [1..n -> BackendStatuses \cup {"missing"}] } : n \in 0..MaxOrders }

\* The timestamp of the page's orders, new Date() when they were built: later
\* than every created_at of the backend.
Now == 100

\* new Date(a.timestamp || a.created_at || 0).getTime()
getTime(order) == IF "created_at" \in DOMAIN order THEN order.created_at ELSE Now

\* order.order_id || order.id
orderId(order) == IF "order_id" \in DOMAIN order THEN order.order_id ELSE order.id

\* order.status || fallback
statusOr(order, fallback) == IF "status" \in DOMAIN order THEN order.status ELSE fallback

\* One step of the stable sort: order is placed behind the entries that are
\* not older than it.
RECURSIVE insert(_, _)
insert(order, sorted) ==
    IF sorted = <<>> THEN << order >>
    ELSE IF getTime(Head(sorted)) >= getTime(order)
           THEN << Head(sorted) >> \o insert(order, Tail(sorted))
           ELSE << order >> \o sorted

\* Array.prototype.sort with (a, b) => dateB - dateA: most recent first, stable.
RECURSIVE sort(_)
sort(list) ==
    IF list = <<>> THEN <<>> ELSE insert(list[Len(list)], sort(SubSeq(list, 1, Len(list) - 1)))

\* [...orders, ...userOrderHistory].sort(...)
allOrders == sort(orders \o userOrderHistory)

isActive(order) == statusOr(order, "placed") \in {"placed", "preparing", "cooking"}

isCompleted(order) == statusOr(order, "delivered") \in {"ready", "delivered"}

activeOrders == SelectSeq(allOrders, isActive)

completedOrders == SelectSeq(allOrders, isCompleted)

\* The page renders OrderTracking.
TrackRendered == ChatRendered /\ currentView = "track"

\* loadUserOrderHistory up to its first await (the user's email is set while
\* the user is confirmed).
loadUserOrderHistory ==
    /\ TrackRendered
    /\ loads < MaxLoads
    /\ loading' = TRUE
    /\ loads' = loads + 1
    /\ UNCHANGED << envVars, voiceVars, pageVars, rerunVars, chatVars, viewVars, cartVars,
                    gateVars, thanksVars, userOrderHistory >>

\* loadUserOrderHistory after its awaits: the records of the user (merged with
\* the status updates or not) become the history; a response that is not ok and
\* a rejected fetch leave it; loading is cleared.
loadUserOrderHistorySettled(ok, history) ==
    /\ TrackRendered
    /\ loads > 0
    /\ loads' = loads - 1
    /\ loading' = FALSE
    /\ userOrderHistory' = IF ok THEN history ELSE userOrderHistory
    /\ UNCHANGED << envVars, voiceVars, pageVars, rerunVars, chatVars, viewVars, cartVars,
                    gateVars, thanksVars >>

NextTracking ==
    \/ \E ok \in BOOLEAN, history \in Histories : handleUserConfirmed(ok, history, "not ok")
    \/ setCurrentView("track")
    \/ loadUserOrderHistory
    \/ \E ok \in BOOLEAN, history \in BackendHistories : loadUserOrderHistorySettled(ok, history)

SpecTracking == Init /\ [][NextTracking]_vars

-----------------------------------------------------------------------------
(* Part 7: EmailCheckFlow (src/frontend/src/components/VoiceButton.tsx, from
   line 156), rendered by the Index page while no user is confirmed.  A
   confirmation unmounts it; the next one the page renders starts from its
   initial state. *)

\* Texts the user types into the email input.
Emails == { <<"a">>, <<"a", "@", "b">>, <<"a", " ", "@", "b", ".", "c">>,
            <<"a", "@", "b", ".", "c">> }

\* Names the user types into the name input.
Names == { <<" ">>, <<"n">> }

\* A sequence of at least one character, none of them white space or @.
Part(s) == s # <<>> /\ \A i \in 1..Len(s) : ~IsSpace(s[i]) /\ s[i] # "@"

\* /^[^\s@]+@[^\s@]+\.[^\s@]+$/.test(email)
isValidEmail(s) ==
    \E i, j \in 1..Len(s) :
      /\ i < j
      /\ s[i] = "@"
      /\ s[j] = "."
      /\ Part(SubSeq(s, 1, i - 1))
      /\ Part(SubSeq(s, i + 1, j - 1))
      /\ Part(SubSeq(s, j + 1, Len(s)))

\* Outcomes of the check request: a known user with a name, a user without a
\* name (new or known), a response that is not ok or a rejected fetch.
CheckOutcomes == {"named", "nameless", "failed"}

\* The page renders the email gate.
GateRendered == pageMounted /\ ~isUserConfirmed

\* The gate is unmounted: the next gate starts from the initial state and the
\* continuations of the unmounted one change nothing.
gateUnmounted ==
    /\ step' = "email"
    /\ email' = <<>>
    /\ isLoading' = FALSE
    /\ checks' = {}

\* onChange of the email input (disabled while isLoading).
setEmail(text) ==
    /\ GateRendered
    /\ step = "email"
    /\ ~isLoading
    /\ email # text
    /\ email' = text
    /\ UNCHANGED << envVars, voiceVars, pageVars, rerunVars, chatVars, viewVars, cartVars,
                    trackVars, thanksVars, step, isLoading, checks, checkPosts >>

\* checkEmail up to its await: an invalid email only shows a toast, a valid one
\* sets isLoading and the step 'loading' and is posted to /user/check.
checkEmail ==
    /\ GateRendered
    /\ step = "email"
    /\ ~isLoading
    /\ checkPosts < MaxChecks
    /\ IF ~isValidEmail(email)
         THEN /\ notice' = "Invalid email"
              /\ UNCHANGED << step, isLoading, checks, checkPosts >>
         ELSE /\ isLoading' = TRUE
              /\ step' = "loading"
              /\ checks' = checks \cup {"check"}
              /\ checkPosts' = checkPosts + 1
              /\ UNCHANGED notice
    /\ UNCHANGED << envVars, voiceVars, pageVars, rerunVars, chatVars, cartVars, trackVars,
                    thanksVars, currentOrder, currentView, showThankYou, email >>

\* checkEmail after its await with the step left at 'loading' on failure.
checkEmailSettled_staysLoading(outcome, ok, history, greeting) ==
    /\ "check" \in checks
    /\ IF outcome = "named"
         THEN /\ notice' = "Welcome back, name!"
              /\ onUserConfirmed(ok, history, greeting)
              /\ gateUnmounted
         ELSE /\ notice' = IF outcome = "nameless" THEN "Welcome to Pizza Planet!" ELSE "Error"
              /\ step' = IF outcome = "nameless" THEN "name" ELSE step
              /\ isLoading' = FALSE
              /\ checks' = checks \ {"check"}
              /\ UNCHANGED << pageVars, messages, email >>
    /\ UNCHANGED << envVars, voiceVars, rerunVars, cartVars, trackVars, thanksVars, inputValue,
                    isProcessing, requests, posts, submitted, currentOrder, currentView,
                    showThankYou, checkPosts >>

\* checkEmail after its await: a known user with a name is confirmed; a user
\* without a name is asked for it (step 'name'); a response that is not ok and
\* a rejected fetch show the error toast and return to the step 'email';
\* isLoading is cleared in every case.
checkEmailSettled(outcome, ok, history, greeting) ==
    /\ "check" \in checks
    /\ IF outcome = "named"
         THEN /\ notice' = "Welcome back, name!"
              /\ onUserConfirmed(ok, history, greeting)
              /\ gateUnmounted
         ELSE /\ notice' = IF outcome = "nameless" THEN "Welcome to Pizza Planet!" ELSE "Error"
              /\ step' = IF outcome = "nameless" THEN "name" ELSE "email"
              /\ isLoading' = FALSE
              /\ checks' = checks \ {"check"}
              /\ UNCHANGED << pageVars, messages, email >>
    /\ UNCHANGED << envVars, voiceVars, rerunVars, cartVars, trackVars, thanksVars, inputValue,
                    isProcessing, requests, posts, submitted, currentOrder, currentView,
                    showThankYou, checkPosts >>

\* saveUserData up to its await: a blank name only shows a toast, another one
\* sets isLoading and is posted to /user/save.
saveUserData(name) ==
    /\ GateRendered
    /\ step = "name"
    /\ ~isLoading
    /\ checkPosts < MaxChecks
    /\ IF trim(name) = <<>>
         THEN /\ notice' = "Name required"
              /\ UNCHANGED << isLoading, checks >>
         ELSE /\ isLoading' = TRUE
              /\ checks' = checks \cup {"save"}
              /\ UNCHANGED notice
    /\ UNCHANGED << envVars, voiceVars, pageVars, rerunVars, chatVars, cartVars, trackVars,
                    thanksVars, currentOrder, currentView, showThankYou, step, email,
                    checkPosts >>

\* saveUserData after its await: on an ok response the user is confirmed, else
\* the error toast is shown; isLoading is cleared.
saveUserDataSettled(saved, ok, history, greeting) ==
    /\ "save" \in checks
    /\ IF saved
         THEN /\ notice' = "Welcome name!"
              /\ onUserConfirmed(ok, history, greeting)
              /\ gateUnmounted
         ELSE /\ notice' = "Error"
              /\ isLoading' = FALSE
              /\ checks' = checks \ {"save"}
              /\ UNCHANGED << pageVars, messages, step, email >>
    /\ UNCHANGED << envVars, voiceVars, rerunVars, cartVars, trackVars, thanksVars, inputValue,
                    isProcessing, requests, posts, submitted, currentOrder, currentView,
                    showThankYou, checkPosts >>

\* skipName: onUserConfirmed(email).
skipName(ok, history, greeting) ==
    /\ GateRendered
    /\ step = "name"
    /\ ~isLoading
    /\ onUserConfirmed(ok, history, greeting)
    /\ gateUnmounted
    /\ UNCHANGED << envVars, voiceVars, rerunVars, cartVars, trackVars, thanksVars, inputValue,
                    isProcessing, requests, posts, submitted, viewVars, checkPosts >>

NextGate ==
    \/ \E text \in Emails : setEmail(text)
    \/ checkEmail
    \/ \E outcome \in CheckOutcomes : checkEmailSettled(outcome, TRUE, <<>>, "not ok")
    \/ \E name \in Names : saveUserData(name)
    \/ \E saved \in BOOLEAN : saveUserDataSettled(saved, TRUE, <<>>, "not ok")
    \/ skipName(TRUE, <<>>, "not ok")
    \/ handleLogout

SpecGate == Init /\ [][NextGate]_vars

-----------------------------------------------------------------------------
(* Part 8: ThankYou (src/frontend/src/components/ThankYou.tsx), rendered by the
   Index page after an order placed through the chat.  Its effect starts an
   interval of 2 seconds that advances the stage; the tick after the last stage
   clears the interval and sets a timeout of 3 seconds that calls
   onViewTracking, which is handleViewTracking of the page. *)

\* stages.length - 1
LastStage == 3

\* The effect of the screen just mounted: the interval is started.
thankYouEffect ==
    /\ ThankYouRendered
    /\ ~thanksMounted
    /\ thanksMounted' = TRUE
    /\ progressInterval' = TRUE
    /\ currentStage' = 0
    /\ UNCHANGED << envVars, voiceVars, pageVars, rerunVars, chatVars, viewVars, cartVars,
                    trackVars, gateVars, viewTimeouts, viewTrackingCalls, pageMounted >>

\* The interval callback: setCurrentStage(prev => ...) advances the stage up to
\* the last one; after it, the interval is cleared and the timeout is set.
progressTick ==
    /\ progressInterval
    /\ IF currentStage < LastStage
         THEN /\ currentStage' = currentStage + 1
              /\ UNCHANGED << progressInterval, viewTimeouts >>
         ELSE /\ progressInterval' = FALSE
              /\ viewTimeouts' = viewTimeouts + 1
              /\ UNCHANGED currentStage
    /\ UNCHANGED << envVars, voiceVars, pageVars, rerunVars, chatVars, viewVars, cartVars,
                    trackVars, gateVars, thanksMounted, viewTrackingCalls, pageMounted >>

\* The timeout fires: onViewTracking() is called; handleViewTracking sets the
\* state of the page unless the page is unmounted.
viewTimeout ==
    /\ viewTimeouts > 0
    /\ viewTimeouts' = viewTimeouts - 1
    /\ viewTrackingCalls' = viewTrackingCalls + 1
    /\ IF pageMounted
         THEN onViewTracking
         ELSE UNCHANGED << showThankYou, currentView, thanksMounted, progressInterval,
                           currentStage >>
    /\ UNCHANGED << envVars, voiceVars, pageVars, rerunVars, chatVars, cartVars, trackVars,
                    gateVars, currentOrder, notice, pageMounted >>

\* The page is unmounted (the user leaves the route): the screen is unmounted
\* with it, the cleanups clear the interval of the screen and the interval of
\* the status simulation; the timeout is not cleared.
pageUnmount ==
    /\ pageMounted
    /\ pageMounted' = FALSE
    /\ thanksMounted' = FALSE
    /\ progressInterval' = FALSE
    /\ interval' = FALSE
    /\ UNCHANGED << envVars, voiceVars, rerunVars, chatVars, viewVars, cartVars, trackVars,
                    gateVars, isUserConfirmed, orders, recentOrder, currentStatusIndex,
                    currentStage, viewTimeouts, viewTrackingCalls >>

NextThanks ==
    \/ handleUserConfirmed(TRUE, <<>>, "not ok")
    \/ \E text \in Spoken : handleVoiceInput(text)
    \/ \E r \in requests, response \in ChatResponses : handleSendMessageSettled(r, response)
    \/ thankYouEffect
    \/ progressTick
    \/ viewTimeout
    \/ pageUnmount

SpecThanks == Init /\ [][NextThanks]_vars

----------------------------------------------------------------------------
(* Observations used by the properties *)

\* Number of invocations of a host callback since the last successful start().
Calls(name) == Cardinality({ i \in 1..Len(log) : log[i].cb = name })

\* The onSpeechStart / onSpeechEnd invocations, in order.
Lifecycle == SelectSeq(log, LAMBDA c : c.cb \in {"onSpeechStart", "onSpeechEnd"})

\* This step delivers the adapter's error event with the given code.
ErrorStep(code) == code \notin events /\ code \in events'

\* This step delivers an adapter event (start, result, speech, error or end).
AdapterStep == (events # events' /\ events \subseteq events') \/ nResults' = nResults + 1

\* The texts passed to onVoiceInput since the last successful start(), in order.
Forwarded == [ i \in 1..Len(SelectSeq(log, LAMBDA c : c.cb = "onVoiceInput")) |->
                 SelectSeq(log, LAMBDA c : c.cb = "onVoiceInput")[i].text ]

\* The final segments of a result event from its result index on, in arrival order.
FinalSegments(event) ==
    SelectSeq(SubSeq(event.results, event.resultIndex, Len(event.results)),
              LAMBDA r : r.isFinal)

\* Concatenation of the transcripts of a sequence of segments.
RECURSIVE Concat(_)
Concat(segs) == IF segs = <<>> THEN <<>> ELSE Head(segs).transcript \o Concat(Tail(segs))

\* Position of a status in placed, preparing, cooking, ready, delivered.
Rank(status) ==
    CASE status = "placed" -> 1
      [] status = "preparing" -> 2
      [] status = "cooking" -> 3
      [] status = "ready" -> 4
      [] status = "delivered" -> 5

\* This step is an interval callback of the status simulation that changes the
\* status of the recent order.
SimulationStep ==
    /\ interval
    /\ isUserConfirmed' = isUserConfirmed
    /\ Len(orders') = Len(orders)
    /\ recentOrder'.id = recentOrder.id
    /\ recentOrder'.status # recentOrder.status

\* This step delivers a result event.
ResultStep == nResults' = nResults + 1

\* This step delivers the adapter's end event.
EndStep == "end" \notin events /\ "end" \in events'

\* This step starts a recognition session.
SessionStartStep == sess # "starting" /\ sess' = "starting"

\* A click has been handled after the session of this log stopped listening (after
\* its first onSpeechEnd).
ClickedAfterSession ==
    \E i, j \in 1..Len(log) :
        j < i /\ log[j].cb = "onSpeechEnd" /\ log[i].cb = "toggleListening"

\* This step settles the mount-time probe.
PreProbeStep == preProbe = "pending" /\ preProbe' = "done"

\* This step calls recognition.stop().
StopStep == stopCalls' = stopCalls + 1

\* This step is a click on the button.
ToggleStep == toggles' = toggles + 1

\* This step settles a probe of toggleListening.
ProbeSettledStep == pendingProbes' = pendingProbes - 1

\* This step settles a probe of toggleListening as denied.
ProbeDeniedStep == ProbeSettledStep /\ probes' = Append(probes, "denied")

\* This step calls recognition.start(): a probe of toggleListening resolves.
StartCalledStep == ProbeSettledStep /\ ~ProbeDeniedStep

\* This step settles a probe as granted and sets the permission status.
ProbeGrantedStep ==
    /\ hasPermission' = "true"
    /\ \/ pendingProbes' = pendingProbes - 1
       \/ preProbe = "pending" /\ preProbe' = "done"

----------------------------------------------------------------------------
(* Properties *)

\* C1: within one session onVoiceInput is invoked at most once, whatever result
\* events the adapter delivers.
C1_NoDoubleForwarding == Calls("onVoiceInput") <= 1

\* C2: a session the adapter started (start event delivered) and ended has had
\* onSpeechStart exactly once and then onSpeechEnd exactly once, whatever the outcome.
C2_StartEndExactlyOnce ==
    ("start" \in events /\ sess = "inactive") =>
        Lifecycle = << Callback("onSpeechStart", <<>>), Callback("onSpeechEnd", <<>>) >>

\* C3: every onVoiceInput of a session comes after that session's onSpeechStart and
\* before any onSpeechEnd, and once the session has ended an onSpeechEnd follows it.
C3_FinalizationOrdering ==
    \A i \in 1..Len(log) :
        log[i].cb = "onVoiceInput" =>
            /\ \E j \in 1..(i - 1) : log[j].cb = "onSpeechStart"
            /\ \A k \in 1..(i - 1) : log[k].cb # "onSpeechEnd"
            /\ sess = "inactive" => \E k \in (i + 1)..Len(log) : log[k].cb = "onSpeechEnd"

\* C3 witness: a session that forwarded a transcript has ended.
C3_Witness ==
    /\ sess = "inactive"
    /\ \E i \in 1..Len(log) : log[i].cb = "onVoiceInput"
    /\ log[Len(log)].cb = "onSpeechEnd"

\* C4: a session in which the adapter delivered only start, speech-detected,
\* speech-ended, error 'no-speech' and end leaves the component not listening and
\* has raised no error notification of any severity.
C4_SilenceAbsorbed ==
    (mounted /\ events = {"start", "speechstart", "speechend", "no-speech", "end"}) =>
        /\ ~isListening
        /\ \A i \in 1..Len(toasts) : toasts[i].title # "Voice input error"

\* C5: the error 'aborted', delivered while the component is listening, raises no
\* notification, leaves the permission status unchanged and leaves the component
\* not listening.
C5_AbortedSilent ==
    [][ (mounted /\ isListening /\ ErrorStep("aborted")) =>
            /\ toasts' = toasts
            /\ hasPermission' = hasPermission
            /\ ~isListening' ]_vars

\* C6: the error 'not-allowed' sets the permission status to Denied and raises
\* exactly one notification, of destructive severity; while the permission status
\* is Denied and the component is supported the rendered button is the
\* permission-required one, with the click handler attached; and the status leaves
\* Denied only by a probe being granted.
C6_NotAllowedDenies ==
    /\ [][ (mounted /\ ErrorStep("not-allowed")) =>
              /\ hasPermission' = "false"
              /\ toasts' = Append(toasts, Toast("Voice input error", "destructive")) ]_vars
    /\ [](  (mounted /\ isSupported /\ hasPermission = "false") =>
              (render.kind = "permission-required" /\ render.onClick) )
    /\ [][ (mounted /\ hasPermission = "false" /\ hasPermission' # "false") =>
              ProbeGrantedStep ]_vars

\* C6 witness: after 'not-allowed' in a listening session the permission-required
\* button is rendered.
C6_Witness ==
    /\ mounted
    /\ "start" \in events
    /\ "not-allowed" \in events
    /\ hasPermission = "false"
    /\ render.kind = "permission-required"

C8_UnmountStopsOnce ==
    [][ (mounted /\ ~mounted' /\ isListening /\ sess = "active") =>
            stopCalls' = stopCalls + 1 ]_vars

\* C9: an adapter event delivered after the unmount by the session that was
\* listening at the unmount invokes no host callback, raises no notification and
\* changes no component state.
C9_LateEventsIgnored ==
    [][ (~mounted /\ isListening /\ AdapterStep) =>
            /\ log' = log
            /\ toasts' = toasts
            /\ UNCHANGED << isListening, isSupported, hasPermission, isInitialized,
                            recognitionRef >> ]_vars

\* C10: every text passed to onVoiceInput is trimmed and longer than one character.
C10_TrimAndMinLength ==
    \A i \in 1..Len(log) :
        log[i].cb = "onVoiceInput" =>
            /\ log[i].text = trim(log[i].text)
            /\ Len(log[i].text) > 1

\* C11: the text forwarded for a result event is the concatenation, in arrival
\* order, of the event's final segments from its result index on, trimmed as a
\* whole and forwarded only if non-empty after the trim; interim segments and
\* segments before the result index contribute nothing.
C11_ConcatenatedInOrder ==
    nResults = 1 =>
        Forwarded = IF trim(Concat(FinalSegments(lastEvent))) # <<>>
                      THEN << trim(Concat(FinalSegments(lastEvent))) >>
                      ELSE << >>

\* C11 witness: an event with the final segments "a " and " b" has been forwarded
\* as "a  b".
C11_Witness ==
    /\ nResults = 1
    /\ lastEvent.resultIndex = 1
    /\ Len(lastEvent.results) = 2
    /\ \A i \in 1..2 : lastEvent.results[i].isFinal
    /\ lastEvent.results[1].transcript = <<"a", " ">>
    /\ lastEvent.results[2].transcript = <<" ", "b">>
    /\ Forwarded = << <<"a", " ", " ", "b">> >>

\* C12: with an engine but an insecure context the component is Unsupported, no
\* recognition object is created, no session is started and no probe is issued;
\* and whenever the component is Unsupported a toggle issues no probe, calls
\* neither start() nor stop() and changes no component state.
C12_InsecureRefusal ==
    /\ []( (engine /\ ~isSecure) =>
              /\ ~isSupported
              /\ recognitionRef = "null"
              /\ sess = "inactive"
              /\ pendingProbes = 0 )
    /\ [][ (ToggleStep /\ ~isSupported) =>
              UNCHANGED << pendingProbes, stopCalls, sess, isListening, isSupported,
                           hasPermission, recognitionRef >> ]_vars

C14_GraceTimerStops ==
    ( /\ mounted
      /\ "speechend" \in events
      /\ "end" \in events
      /\ events \cap ErrorCodes = {}
      /\ Forwarded = << >>
      /\ Calls("toggleListening") = 0 ) =>
        (stopCalls = 1 /\ ~isListening)

\* C15: a stop() request, whether a session is alive or not and whether or not
\* stop() was already requested for the session, raises no notification, does not
\* change the session and invokes no onSpeechEnd by itself; and a session without
\* an adapter error has at most one onSpeechEnd however often stop() was requested.
C15_IdempotentStop ==
    /\ [][ StopStep =>
              /\ toasts' = toasts
              /\ sess' = sess
              /\ Calls("onSpeechEnd")' = Calls("onSpeechEnd") ]_vars
    /\ []( events \cap ErrorCodes = {} => Calls("onSpeechEnd") <= 1 )

\* C15 witness: a session in which stop() was requested twice (by a final result
\* and by a click) has ended with one onSpeechEnd.
C15_Witness ==
    /\ mounted
    /\ stopCalls = 2
    /\ Forwarded # << >>
    /\ Calls("toggleListening") = 1
    /\ events \cap ErrorCodes = {}
    /\ "end" \in events
    /\ Calls("onSpeechEnd") = 1

\* C16: a click made while the probe of an earlier click is still awaited issues no
\* second probe, so at most one probe is ever awaited.
C16_PendingToggleIgnored ==
    /\ [][ (ToggleStep /\ pendingProbes > 0) => pendingProbes' = pendingProbes ]_vars
    /\ [](pendingProbes <= 1)

\* C17: start() is invoked only when no session is alive, that is never between a
\* start() and the end event of the session it started (in particular not before
\* the adapter's start event and not between an error and the end that follows).
C17_SingleSession ==
    [][ StartCalledStep => sess = "inactive" ]_vars

\* C18: in a session whose result events carried interim segments only, or which
\* received no result event, onVoiceInput is not invoked, and once the session
\* has ended onSpeechEnd has been invoked (once, after onSpeechStart).
C18_InterimNeverForwarded ==
    (\A i \in 1..Len(lastEvent.results) : ~lastEvent.results[i].isFinal) =>
        /\ Forwarded = << >>
        /\ ("end" \in events) =>
              Lifecycle = << Callback("onSpeechStart", <<>>), Callback("onSpeechEnd", <<>>) >>

\* C18 witness: a session that received the interim segments "a " and " b" and
\* nothing final has ended.
C18_Witness ==
    /\ nResults = 1
    /\ Len(lastEvent.results) = 2
    /\ \A i \in 1..2 : ~lastEvent.results[i].isFinal
    /\ lastEvent.results[1].transcript = <<"a", " ">>
    /\ lastEvent.results[2].transcript = <<" ", "b">>
    /\ "end" \in events
    /\ Forwarded = << >>
    /\ Calls("onSpeechEnd") = 1

C19_StatusOnlyAdvances ==
    [][ SimulationStep =>
            /\ Rank(recentOrder'.status) = Rank(recentOrder.status) + 1
            /\ \A i \in 1..Len(orders') :
                  orders'[i].id = recentOrder'.id => orders'[i].status = recentOrder'.status ]_vars

\* C21: once the handler of a probe has completed, whatever the probe's outcome, no
\* audio track acquired by a probe is live.
C21_ProbeReleasesStream == liveTracks = 0

\* C22: a probe of a click that settles after the unmount starts no session (when
\* granted) and changes no state and raises no notification (when denied).
C22_NoStartAfterTeardown ==
    [][ (~mounted /\ ProbeSettledStep) =>
            /\ sess' = sess
            /\ toasts' = toasts
            /\ UNCHANGED << isListening, isSupported, hasPermission, isInitialized >> ]_vars

\* C23: the transcript is not forwarded at the time of the result event: a result
\* event invokes no host callback (it only requests stop()), and onVoiceInput is
\* invoked on the adapter's end event, immediately before onSpeechEnd.
C23_ForwardedAtEnd ==
    /\ [][ ResultStep => log' = log ]_vars
    /\ [][ (mounted /\ EndStep /\ Len(log') = Len(log) + 2) =>
              /\ log'[Len(log) + 1].cb = "onVoiceInput"
              /\ log'[Len(log) + 2].cb = "onSpeechEnd" ]_vars

C25_NoAutomaticRetry ==
    /\ [][ pendingProbes' > pendingProbes => ToggleStep ]_vars
    /\ [][ SessionStartStep => ProbeSettledStep ]_vars
    /\ [][ (EndStep \/ \E code \in ErrorCodes : ErrorStep(code)) =>
              (pendingProbes' = pendingProbes /\ preProbe' = preProbe /\ ~SessionStartStep) ]_vars
    /\ [][ (SessionStartStep /\ "end" \in events) => ClickedAfterSession ]_vars

\* C26: the settling of the mount-time probe, granted or denied, starts no session,
\* does not change the listening state, raises no notification, invokes no host
\* callback and issues no other probe: it changes the permission status only.
C26_PreProbeOnlyCaches ==
    [][ PreProbeStep =>
            /\ (mounted => hasPermission' \in {"true", "false"})
            /\ UNCHANGED << sess, isListening, isSupported, isInitialized, recognitionRef,
                            pendingProbes, stopCalls, log, toasts, liveTracks >> ]_vars

\* C26 witness: the mount-time probe was denied before any click.
C26_Witness ==
    /\ mounted
    /\ preProbe = "done"
    /\ toggles = 0
    /\ hasPermission = "false"
    /\ sess = "inactive"
    /\ ~isListening
    /\ toasts = << >>

\* C27: once the init effect has run with an engine present, the component is
\* supported exactly when the scheme is https: or the hostname is a loopback host
\* (localhost, 127.0.0.1, [::1]); for every other page it is Unsupported and has no
\* recognition object.
C27_SecureContextRule ==
    (mounted /\ isInitialized /\ engine) =>
        /\ isSupported <=> (protocol = "https:" \/ hostname \in {"localhost", "127.0.0.1", "[::1]"})
        /\ ~isSupported => recognitionRef = "null"

\* C28: without a recognition engine the component renders the disabled button and
\* raises no notification.
C28_UnsupportedIsSilent ==
    (mounted /\ ~engine) =>
        /\ isInitialized => (render.kind = "disabled" /\ ~render.onClick)
        /\ toasts = << >>

\* C29: a click's probe that is granted never sets the permission status to Denied
\* and never raises the 'Microphone access required' notification, also when the
\* start() that follows it throws.
C29_StartFailureNotDenial ==
    [][ (mounted /\ StartCalledStep) =>
            /\ hasPermission' = "true"
            /\ toasts' # Append(toasts, Toast("Microphone access required", "destructive")) ]_vars

\* C30: when the mount-time probe settles after the probe of a click has set the
\* permission status, it leaves the status as the click's probe set it.
C30_PreProbeDoesNotOverwrite ==
    [][ (mounted /\ hasPermission # "null" /\ PreProbeStep) =>
            hasPermission' = hasPermission ]_vars


\* A host re-render that passed new callback identities.
RerenderStep == rerenders' = rerenders + 1

\* C31: in components/VoiceButton.tsx a host re-render that passes new callback
\* identities while a session is listening neither stops the active session
\* (no stop() call, the session stays the current one) nor replaces the
\* recognition object.
C31_RerenderKeepsSession ==
    [][ (RerenderStep /\ isListening /\ sess = "active")
          => /\ stopCalls' = stopCalls
             /\ recognitions' = recognitions
             /\ sess' = sess ]_vars


\* Chat requests of handleSendMessage in flight.
InFlight == { r \in requests : r.kind = "page" }

\* Typed messages in the message list.
TypedMessages == Cardinality({ i \in 1..Len(messages) : messages[i] \in { User(trim(t)) : t \in Inputs } })

\* C32: each message submitted through the chat form causes exactly one POST to
\* the chat endpoint and is appended to the message list exactly once: never
\* more POSTs or appended messages than submitted messages, and as many POSTs
\* once no request of a typed message is in flight.
C32_OnePostPerMessage ==
    /\ posts.form <= submitted
    /\ TypedMessages <= submitted
    /\ (\A r \in requests : r.origin # "form") => posts.form = submitted

\* C33: isProcessing is true whenever at least one chat request of
\* handleSendMessage is in flight and false when none is.
C33_ProcessingWhileInFlight == isProcessing <=> InFlight # {}

\* C37: while no user is confirmed (after a logout and before the next sign-in)
\* the orders, the recent order, the messages and the cart are empty.
C37_LogoutStaysCleared ==
    ~isUserConfirmed => /\ orders = <<>>
                        /\ recentOrder = NoOrder
                        /\ messages = <<>>
                        /\ currentOrder = <<>>

\* placeOrder has posted an order request.
PlaceOrderStep == orderPosts' = orderPosts + 1

\* An order request of placeOrder has failed (response not ok or fetch rejected).
OrderFailedStep ==
    /\ orderRequests' # orderRequests
    /\ orderRequests' \subseteq orderRequests
    /\ notice' = "Error placing order"

\* An order request of placeOrder has succeeded.
OrderSucceededStep ==
    /\ orderRequests' # orderRequests
    /\ orderRequests' \subseteq orderRequests
    /\ notice' = "Order placed successfully!"

\* C34: placeOrder sends a request only for a non-empty cart; a failed order
\* request leaves the cart, the orders, the recent order and the view
\* unchanged; a successful one appends exactly one order, which holds the items
\* of the cart the order was placed for, makes it the recent order, empties
\* the cart and shows the view 'track'.
C34_PlaceOrder ==
    [][ /\ PlaceOrderStep => currentOrder # <<>>
        /\ OrderFailedStep => UNCHANGED << currentOrder, orders, recentOrder, currentView >>
        /\ OrderSucceededStep =>
             \E r \in orderRequests \ orderRequests' :
               /\ Len(orders') = Len(orders) + 1
               /\ SubSeq(orders', 1, Len(orders)) = orders
               /\ orders'[Len(orders')].items = r.items
               /\ r.items # <<>>
               /\ recentOrder' = orders'[Len(orders')]
               /\ currentOrder' = <<>>
               /\ currentView' = "track" ]_vars

\* An order placed from a cart of two pizzas is the recent order.
C34_Witness ==
    /\ notice = "Order placed successfully!"
    /\ orders # <<>>
    /\ recentOrder = orders[Len(orders)]
    /\ quantity(recentOrder.items) = 2
    /\ currentOrder = <<>>
    /\ currentView = "track"

\* At most one entry per item id, every quantity at least 1.
CartOk(cart) ==
    /\ \A i, j \in 1..Len(cart) : cart[i].id = cart[j].id => i = j
    /\ \A i \in 1..Len(cart) : cart[i].quantity >= 1

\* handleAddToOrder has run: its bot message is the last message.
AddStep ==
    /\ Len(messages') = Len(messages) + 1
    /\ messages'[Len(messages')].content[1] = "added"

\* C40: the cart always holds at most one entry per item id with quantities of
\* at least 1; adding an item already in the cart increments that entry's
\* quantity by one and changes nothing else, adding a new item appends it with
\* quantity 1; the total of the bot message is the sum of price times quantity
\* over the resulting cart.
C40_CartEntries ==
    [][ /\ CartOk(currentOrder')
        /\ AddStep =>
             /\ \E item \in MenuItems :
                  IF \E i \in 1..Len(currentOrder) : currentOrder[i].id = item.id
                    THEN /\ Len(currentOrder') = Len(currentOrder)
                         /\ \A i \in 1..Len(currentOrder) :
                              currentOrder'[i] =
                                IF currentOrder[i].id = item.id
                                  THEN [currentOrder[i] EXCEPT !.quantity = currentOrder[i].quantity + 1]
                                  ELSE currentOrder[i]
                    ELSE currentOrder' = Append(currentOrder,
                                                [id |-> item.id, price |-> item.price, quantity |-> 1])
             /\ messages'[Len(messages')].content[2] = ToString(total(currentOrder')) ]_vars

\* The same pizza has been added twice: one entry of quantity 2, announced with its total.
C40_Witness ==
    /\ Len(currentOrder) = 1
    /\ currentOrder[1].quantity = 2
    /\ messages # <<>>
    /\ messages[Len(messages)] = Bot(<<"added", ToString(2 * currentOrder[1].price)>>)

\* C35: in the order tracking view every order of the combined list is in
\* exactly one of the active list and the completed list, whatever its status,
\* a missing status and a status outside the five known values included.
C35_ActiveOrCompleted ==
    TrackRendered =>
      \A i \in 1..Len(allOrders) : isActive(allOrders[i]) # isCompleted(allOrders[i])

\* C36: no order id is displayed more than once in the order tracking view.
C36_NoDuplicateIds ==
    TrackRendered =>
      \A i, j \in 1..Len(allOrders) : orderId(allOrders[i]) = orderId(allOrders[j]) => i = j

\* checkEmail has refused an email of invalid format.
InvalidEmailStep == notice' = "Invalid email" /\ notice # "Invalid email"

\* The check request has completed.
CheckCompletedStep == "check" \in checks /\ "check" \notin checks'

\* C38: in the email gate a check that does not succeed (invalid format,
\* response not ok, rejected fetch) does not confirm the user and leaves the
\* step 'email' with isLoading false; an email of invalid format sends no
\* request; the step is 'loading' only while the check request is in flight.
C38_FailedCheck ==
    [][ /\ InvalidEmailStep =>
             /\ checkPosts' = checkPosts
             /\ ~isUserConfirmed'
             /\ step' = "email"
             /\ ~isLoading'
        /\ (CheckCompletedStep /\ notice' = "Error") =>
             /\ ~isUserConfirmed'
             /\ step' = "email"
             /\ ~isLoading'
        /\ (CheckCompletedStep /\ ~isUserConfirmed') => step' # "loading"
        /\ step' = "loading" => "check" \in checks' ]_vars

\* A check request has failed: the gate is back at the step 'email'.
C38_Witness ==
    /\ notice = "Error"
    /\ checkPosts = 1
    /\ ~isUserConfirmed
    /\ step = "email"
    /\ ~isLoading
    /\ isValidEmail(email)

\* onViewTracking has been called.
ViewTrackingStep == viewTrackingCalls' = viewTrackingCalls + 1

\* C39: on the thank-you screen the stage starts at 0, changes only by one
\* step up and never exceeds the last stage; onViewTracking is called only once
\* per screen (at most one call is pending), only after the last stage has been
\* reached and only while the screen is mounted.
C39_StagesThenTracking ==
    [][ /\ currentStage' \in 0..LastStage
        /\ (~thanksMounted /\ thanksMounted') => currentStage' = 0
        /\ (thanksMounted /\ thanksMounted' /\ currentStage' # currentStage)
             => currentStage' = currentStage + 1
        /\ viewTimeouts' <= 1
        /\ ViewTrackingStep => thanksMounted /\ currentStage = LastStage ]_vars

====
